---- MODULE Spec2Model ----
(***************************************************************************)
(* Wesolowski VDF over an RSA group (src/src/lib.rs, src/src/keccak256.rs). *)
(*                                                                         *)
(* The evaluator UnsolvedVDF::eval is modelled loop iteration by loop      *)
(* iteration (its locals live in the record `frame`), the verifier         *)
(* SolvedVDF::verify and the serialization of SerializedVDFProof as        *)
(* operators that the actions apply.                                       *)
(*                                                                         *)
(* Scaling.  BigInt values are TLA+ integers, so the group is small: the   *)
(* modulus is drawn from Moduli, a proof field is GROUP_SIZE bytes wide    *)
(* (256 in lib.rs:11, scaled here) and the Keccak digest is an integer     *)
(* below DigestRange.  All arithmetic is exact within these widths.        *)
(***************************************************************************)
EXTENDS Integers, Sequences

\* ---------------------------------------------------------------- bounds
\* largest sequential-work parameter t that is evaluated
MaxT == 5
\* moduli 2..MaxSmallN are explored besides the RSA-like modulus
MaxSmallN == 7
\* seeds are the integers 0..MaxSeed (as BigInt, or as the last seed byte)
MaxSeed == 3
\* width in bytes of one proof field (lib.rs:11 has 256)
GROUP_SIZE == 2
\* the digests of the hash stand-in are the integers below DigestRange, so that
\* the primes l are small enough for 2^t to exceed them within MaxT squarings
DigestRange == 32

\* ------------------------------------------------------ program constants
SEED_LENGTH == 32
NONCE_SIZE == 4
KECCAK256_BYTES == 32

\* SerializedVDFProof::SIZE
SIZE == GROUP_SIZE * 3 + NONCE_SIZE

\* ------------------------------------------------- BigInt arithmetic (curv)
Abs(n) == IF n < 0 THEN 0 - n ELSE n

\* BigInt::mod_mul: both operands reduced, result in [0, m)
mod_mul(a, c, m) == ((a % m) * (c % m)) % m

\* BigInt::mod_pow: square and multiply, result in [0, m)
RECURSIVE mod_pow(_, _, _)
mod_pow(base, exponent, modulus) ==
    IF exponent = 0 THEN 1 % modulus
    ELSE LET h  == mod_pow(base, exponent \div 2, modulus)
             sq == (h * h) % modulus
         IN  IF exponent % 2 = 1 THEN (sq * (base % modulus)) % modulus ELSE sq

\* BigInt::div_floor and BigInt::mod_floor
div_floor(a, c) == a \div c
mod_floor(a, c) == a % c

\* BigInt::to_bytes: minimal big-endian encoding of the magnitude, zero is one byte
RECURSIVE BigInt_to_bytes(_)
BigInt_to_bytes(n) ==
    IF Abs(n) < 256 THEN <<Abs(n)>>
    ELSE Append(BigInt_to_bytes(Abs(n) \div 256), Abs(n) % 256)

\* BigInt::from_bytes: big-endian decoding of the whole slice
RECURSIVE FromBigEndian(_, _)
FromBigEndian(bytes, n) ==
    IF n = 0 THEN 0 ELSE FromBigEndian(bytes, n - 1) * 256 + bytes[n]

BigInt_from_bytes(bytes) == FromBigEndian(bytes, Len(bytes))

\* u32::to_be_bytes / u64::to_be_bytes: fixed width big-endian
RECURSIVE to_be_bytes(_, _)
to_be_bytes(n, width) ==
    IF width = 0 THEN <<>>
    ELSE Append(to_be_bytes(n \div 256, width - 1), n % 256)

\* u32::from_be_bytes
from_be_bytes(bytes) == BigInt_from_bytes(bytes)

\* ------------------------------------------------------------- keccak256.rs
\* sponge stand-in for sha3::Keccak256: absorbs the bytes one by one
RECURSIVE Absorb(_, _)
Absorb(h, data) ==
    IF data = <<>> THEN h
    ELSE Absorb((h * 5 + Head(data) + 1) % DigestRange, Tail(data))

\* _keccak256: the KECCAK256_BYTES-byte digest of data
keccak256(data) ==
    [j \in 1..KECCAK256_BYTES |-> IF j = KECCAK256_BYTES THEN Absorb(0, data) ELSE 0]

RECURSIVE ConcatBytes(_)
ConcatBytes(big_ints) ==
    IF big_ints = <<>> THEN <<>>
    ELSE BigInt_to_bytes(Head(big_ints)) \o ConcatBytes(Tail(big_ints))

\* Keccak256::create_hash
create_hash(big_ints) == BigInt_from_bytes(keccak256(ConcatBytes(big_ints)))

\* ------------------------------------------------------------ utilities
\* the moduli get_trusted_rsa_modules may be fixed to: every N in 2..MaxSmallN
\* and one product of two primes that needs two bytes
Moduli == (2..MaxSmallN) \cup {17 * 19}

\* h_g: Keccak-256 of N's and x's bytes, reduced mod N
h_g(N, x) == create_hash(<<N, x>>) % N

\* the primality test: no divisor d with d * d <= n
RECURSIVE NoDivisorFrom(_, _)
NoDivisorFrom(n, d) == d * d > n \/ (n % d # 0 /\ NoDivisorFrom(n, d + 1))

is_probable_prime(n) == n >= 2 /\ NoDivisorFrom(n, 2)

\* hash_to_prime: count the nonce up until the digest of g, y, nonce is prime
RECURSIVE hash_to_prime_from(_, _, _)
hash_to_prime_from(g, y, nonce) ==
    LET candidate == BigInt_from_bytes(
            keccak256(BigInt_to_bytes(g) \o BigInt_to_bytes(y) \o to_be_bytes(nonce, NONCE_SIZE)))
    IN  IF is_probable_prime(candidate) THEN <<candidate, nonce>>
        ELSE hash_to_prime_from(g, y, nonce + 1)

hash_to_prime(g, y) == hash_to_prime_from(g, y, 0)

\* ------------------------------------------------------------------ state
VARIABLES
    trusted_N,       \* the modulus get_trusted_rsa_modules returns
    pc,              \* position: idle, square, divide, solved, computed, verified, ...
    caller,          \* who called eval: "eval" (direct call) or "compute"
    unsolved_vdf,    \* the UnsolvedVDF being evaluated
    frame,           \* the locals of UnsolvedVDF::eval
    solved_vdf,      \* the SolvedVDF eval returned
    compute_result,  \* what SerializedVDFProof::compute returned: Ok or the error
    issued,          \* the SerializedVDFProof compute returned
    proof,           \* the SerializedVDFProof presented to the verifier
    flip_at,         \* byte offset whose bit 0 was flipped in transit, -1 if none
    parameter,       \* the SerializedVDFParameter of verify_with_parameter
    self_vdf,        \* the SolvedVDF verify was called on
    challenge,       \* the UnsolvedVDF verify was called with
    verify_result,   \* what verify returned
    wire,            \* a byte string handed to from_bytes or produced by to_bytes
    decoded          \* the SerializedVDFProof on the other side of wire

vars == <<trusted_N, pc, caller, unsolved_vdf, frame, solved_vdf, compute_result,
          issued, proof, flip_at, parameter, self_vdf, challenge, verify_result,
          wire, decoded>>

\* ------------------------------------------------------------ data types
\* struct UnsolvedVDF { x, setup: SetupForVDF { t, N } }
MkUnsolvedVDF(x, t, N) == [x |-> x, setup |-> [t |-> t, N |-> N]]

\* struct SolvedVDF { vdf_instance, y, pi, q, nonce }
MkSolvedVDF(u, y, pi, q, nonce) ==
    [vdf_instance |-> u, y |-> y, pi |-> pi, q |-> q, nonce |-> nonce]

NoUnsolved == MkUnsolvedVDF(0, 0, 0)
NoSolved == MkSolvedVDF(NoUnsolved, 0, 0, 0, 0)
NoProof == [y |-> <<>>, pi |-> <<>>, q |-> <<>>, nonce |-> 0]
\* the outcome of a failed assert!: the call unwinds and yields no value
Panicked == [y |-> <<>>, pi |-> <<>>, q |-> <<>>, nonce |-> 0 - 1]
NoParameter == [x |-> <<>>, t |-> 0]
NoFrame == [N |-> 0, x |-> 0, t |-> 0, g |-> 0, y |-> 0, i |-> 0, l |-> 0,
            nonce |-> 0, r |-> 0, r2 |-> 0, b |-> 0, pi |-> 0]

\* SetupForVDF::public_setup
public_setup(t) == [t |-> t, N |-> trusted_N]

\* a 32-byte seed whose last byte is k
SeedBytes(k) == [j \in 1..SEED_LENGTH |-> IF j = SEED_LENGTH THEN k ELSE 0]

\* UnsolvedVDF::from_parameter
from_parameter(param) ==
    [x |-> BigInt_from_bytes(param.x), setup |-> public_setup(param.t)]

\* SolvedVDF::from_parameter_and_proof
from_parameter_and_proof(param, p) ==
    MkSolvedVDF(from_parameter(param), BigInt_from_bytes(p.y),
                BigInt_from_bytes(p.pi), BigInt_from_bytes(p.q), p.nonce)

\* ----------------------------------------------- faulty variants of verify
\* verify with r reduced modulo N instead of modulo l
verify_r_mod_N(self, unsolved) ==
    IF self.vdf_instance # unsolved THEN "MisMatchedVDF"
    ELSE LET N == self.vdf_instance.setup.N
             g == h_g(self.vdf_instance.setup.N, self.vdf_instance.x)
         IN  IF self.y >= N \/ self.pi >= N THEN "VDFVerifyError"
             ELSE LET l        == hash_to_prime(g, self.y)[1]
                      r        == mod_pow(2, self.vdf_instance.setup.t, N)
                      pi_l     == mod_pow(self.pi, l, N)
                      g_r      == mod_pow(g, r, N)
                      pi_l_g_r == mod_mul(pi_l, g_r, N)
                  IN  IF pi_l_g_r = self.y THEN "Ok" ELSE "VDFVerifyError"

\* verify with the range check made before the instance comparison
verify_range_first(self, unsolved) ==
    LET N == self.vdf_instance.setup.N
        g == h_g(self.vdf_instance.setup.N, self.vdf_instance.x)
    IN  IF self.y >= N \/ self.pi >= N THEN "VDFVerifyError"
        ELSE IF self.vdf_instance # unsolved THEN "MisMatchedVDF"
        ELSE LET l        == hash_to_prime(g, self.y)[1]
                 r        == mod_pow(2, self.vdf_instance.setup.t, l)
                 pi_l     == mod_pow(self.pi, l, N)
                 g_r      == mod_pow(g, r, N)
                 pi_l_g_r == mod_mul(pi_l, g_r, N)
             IN  IF pi_l_g_r = self.y THEN "Ok" ELSE "VDFVerifyError"

\* verify that also compares the transmitted nonce with the recomputed one
verify_checks_nonce(self, unsolved) ==
    IF self.vdf_instance # unsolved THEN "MisMatchedVDF"
    ELSE LET N == self.vdf_instance.setup.N
             g == h_g(self.vdf_instance.setup.N, self.vdf_instance.x)
         IN  IF self.y >= N \/ self.pi >= N THEN "VDFVerifyError"
             ELSE LET ln       == hash_to_prime(g, self.y)
                      r        == mod_pow(2, self.vdf_instance.setup.t, ln[1])
                      pi_l     == mod_pow(self.pi, ln[1], N)
                      g_r      == mod_pow(g, r, N)
                      pi_l_g_r == mod_mul(pi_l, g_r, N)
                  IN  IF pi_l_g_r = self.y /\ self.nonce = ln[2]
                      THEN "Ok" ELSE "VDFVerifyError"

\* ----------------------------------------------------------- SolvedVDF::verify
verify(self, unsolved) ==
    IF self.vdf_instance # unsolved THEN "MisMatchedVDF"
    ELSE LET N == self.vdf_instance.setup.N
             g == h_g(self.vdf_instance.setup.N, self.vdf_instance.x)
         IN  IF self.y >= N \/ self.pi >= N THEN "VDFVerifyError"
             ELSE LET l        == hash_to_prime(g, self.y)[1]
                      r        == mod_pow(2, self.vdf_instance.setup.t, l)
                      pi_l     == mod_pow(self.pi, l, N)
                      g_r      == mod_pow(g, r, N)
                      pi_l_g_r == mod_mul(pi_l, g_r, N)
                  IN  IF pi_l_g_r = self.y THEN "Ok" ELSE "VDFVerifyError"

\* SerializedVDFProof::verify_with_parameter
verify_with_parameter(p, param) ==
    LET solved == from_parameter_and_proof(param, p)
    IN  verify(solved, solved.vdf_instance)

\* ------------------------------------------------- SerializedVDFProof bytes
\* SerializedVDFProof::from_bytes
from_bytes(bytes) ==
    IF Len(bytes) # SIZE THEN Panicked
    ELSE [y     |-> SubSeq(bytes, 1, GROUP_SIZE),
          pi    |-> SubSeq(bytes, GROUP_SIZE + 1, GROUP_SIZE * 2),
          q     |-> SubSeq(bytes, GROUP_SIZE * 2 + 1, GROUP_SIZE * 3),
          nonce |-> from_be_bytes(SubSeq(bytes, GROUP_SIZE * 3 + 1, GROUP_SIZE * 3 + NONCE_SIZE))]

\* to_bytes with the nonce written little-endian
RECURSIVE to_le_bytes(_, _)
to_le_bytes(n, width) ==
    IF width = 0 THEN <<>> ELSE <<n % 256>> \o to_le_bytes(n \div 256, width - 1)

to_bytes_le_nonce(p) == p.y \o p.pi \o p.q \o to_le_bytes(p.nonce, NONCE_SIZE)

\* SerializedVDFProof::to_bytes
to_bytes(p) == p.y \o p.pi \o p.q \o to_be_bytes(p.nonce, NONCE_SIZE)

\* field filling that copies the bytes to the head of the field
fill_field_head(bytes) ==
    [j \in 1..GROUP_SIZE |-> IF j <= Len(bytes) THEN bytes[j] ELSE 0]

\* compute's field filling: a zeroed [u8; GROUP_SIZE] whose tail receives the bytes
fill_field(bytes) ==
    [j \in 1..GROUP_SIZE |->
        IF j <= GROUP_SIZE - Len(bytes) THEN 0 ELSE bytes[j - (GROUP_SIZE - Len(bytes))]]

\* ------------------------------------------------------- input domains
Seeds == 0..MaxSeed
Works == 0..MaxT

\* the challenger's own instance and instances that differ in x, in t or in N
Challenges(u) ==
    {u,
     [u EXCEPT !.x = (u.x + 1) % (MaxSeed + 1)],
     [u EXCEPT !.setup.t = (u.setup.t + 1) % (MaxT + 1)],
     [u EXCEPT !.setup.N = u.setup.N + 1]}

\* y and pi of a received solution: every integer around [0, N) for the small
\* moduli, the values around the range's two ends for the large one
ReceivedValues(N) ==
    IF N <= MaxSmallN THEN (0 - N)..(N + 1)
    ELSE {0 - N, 0 - 1, 0, 1, N - 1, N, N + 1, 256 * 256 - 1}

\* byte strings and proofs handed to the codec
WireBytes == {0, 127}
WireLengths == {SIZE - 1, SIZE, SIZE + 1}
FieldBytes == [1..GROUP_SIZE -> WireBytes]
NonceSamples == {0, 1, 256 + 2, 127 * 256 * 256 * 256 + 255}

\* bit 0 of a byte flipped
FlipBit0(byte) == IF byte % 2 = 0 THEN byte + 1 ELSE byte - 1

\* ------------------------------------------------------------------- Init
Init ==
    /\ trusted_N \in Moduli
    /\ pc = "idle"
    /\ caller = "none"
    /\ unsolved_vdf = NoUnsolved
    /\ frame = NoFrame
    /\ solved_vdf = NoSolved
    /\ compute_result = "none"
    /\ issued = NoProof
    /\ proof = NoProof
    /\ flip_at = 0 - 1
    /\ parameter = NoParameter
    /\ self_vdf = NoSolved
    /\ challenge = NoUnsolved
    /\ verify_result = "none"
    /\ wire = <<>>
    /\ decoded = NoProof

\* --------------------------------------------------------- UnsolvedVDF::eval
\* lines 76-82: N, x, t, g = h_g(N, x), y = g, i = 0
EnterEval(u) ==
    LET g == h_g(u.setup.N, u.x)
    IN  [NoFrame EXCEPT !.N = u.setup.N, !.x = u.x, !.t = u.setup.t, !.g = g, !.y = g]

\* a direct call of UnsolvedVDF::eval on a challenge made with public_setup
Eval(x, t) ==
    /\ pc = "idle"
    /\ pc' = "square"
    /\ caller' = "eval"
    /\ unsolved_vdf' = [x |-> x, setup |-> public_setup(t)]
    /\ frame' = EnterEval([x |-> x, setup |-> public_setup(t)])
    /\ UNCHANGED <<trusted_N, solved_vdf, compute_result, issued, proof, flip_at,
                   parameter, self_vdf, challenge, verify_result, wire, decoded>>

\* SerializedVDFProof::compute up to its call of eval (lines 217-226)
Compute(t_u64, x_bytes) ==
    /\ pc = "idle"
    /\ caller' = "compute"
    /\ IF Len(x_bytes) # SEED_LENGTH
       THEN /\ pc' = "computed"
            /\ compute_result' = "panic: invalid x length"
            /\ UNCHANGED <<unsolved_vdf, frame>>
       ELSE LET t == BigInt_from_bytes(to_be_bytes(t_u64, 8))
                x == BigInt_from_bytes(x_bytes)
                u == [x |-> x, setup |-> public_setup(t)]
            IN  /\ pc' = "square"
                /\ unsolved_vdf' = u
                /\ frame' = EnterEval(u)
                /\ UNCHANGED compute_result
    /\ UNCHANGED <<trusted_N, solved_vdf, issued, proof, flip_at, parameter,
                   self_vdf, challenge, verify_result, wire, decoded>>

\* a squaring loop that multiplies by g instead of squaring
SquareBody_times_g(f) == [f EXCEPT !.y = mod_mul(f.y, f.g, f.N), !.i = f.i + 1]

\* the locals after one iteration of the squaring loop (lines 85-86)
SquareBody(f) == [f EXCEPT !.y = mod_mul(f.y, f.y, f.N), !.i = f.i + 1]

Square ==
    /\ pc = "square"
    /\ frame.i < frame.t
    /\ frame' = SquareBody(frame)
    /\ UNCHANGED <<trusted_N, pc, caller, unsolved_vdf, solved_vdf, compute_result,
                   issued, proof, flip_at, parameter, self_vdf, challenge,
                   verify_result, wire, decoded>>

\* the squaring loop exits; lines 89-98 derive l and reset the locals
HashToPrime ==
    /\ pc = "square"
    /\ ~(frame.i < frame.t)
    /\ LET ln == hash_to_prime(frame.g, frame.y)
       IN  frame' = [frame EXCEPT !.l = ln[1], !.nonce = ln[2], !.i = 0,
                                  !.r = 1, !.r2 = 0, !.pi = 1]
    /\ pc' = "divide"
    /\ UNCHANGED <<trusted_N, caller, unsolved_vdf, solved_vdf, compute_result,
                   issued, proof, flip_at, parameter, self_vdf, challenge,
                   verify_result, wire, decoded>>

\* a long-division loop that takes the quotient bit from r instead of r2
DivideBody_b_from_r(f) ==
    LET r2  == f.r * 2
        b   == div_floor(f.r, f.l)
        r   == mod_floor(r2, f.l)
        g_b == mod_pow(f.g, b, f.N)
        pi1 == mod_mul(f.pi, f.pi, f.N)
        pi2 == mod_mul(pi1, g_b, f.N)
    IN  [f EXCEPT !.r2 = r2, !.b = b, !.r = r, !.pi = pi2, !.i = f.i + 1]

\* the locals after one iteration of the long-division loop (lines 102-108)
DivideBody(f) ==
    LET r2  == f.r * 2
        b   == div_floor(r2, f.l)
        r   == mod_floor(r2, f.l)
        g_b == mod_pow(f.g, b, f.N)
        pi1 == mod_mul(f.pi, f.pi, f.N)
        pi2 == mod_mul(pi1, g_b, f.N)
    IN  [f EXCEPT !.r2 = r2, !.b = b, !.r = r, !.pi = pi2, !.i = f.i + 1]

Divide ==
    /\ pc = "divide"
    /\ frame.i < frame.t
    /\ frame' = DivideBody(frame)
    /\ UNCHANGED <<trusted_N, pc, caller, unsolved_vdf, solved_vdf, compute_result,
                   issued, proof, flip_at, parameter, self_vdf, challenge,
                   verify_result, wire, decoded>>

\* eval returning the remainder of u1 * u2 instead of the quotient
EvalResult_q_remainder(u, f) ==
    LET u1 == mod_pow(f.pi, f.l, f.N)
        u2 == mod_pow(f.g, f.r2, f.N)
        q  == mod_floor(u1 * u2, f.N)
    IN  MkSolvedVDF(u, f.y, f.pi, q, f.nonce)

\* the helper data q and the SolvedVDF eval returns (lines 111-123)
EvalResult(u, f) ==
    LET u1 == mod_pow(f.pi, f.l, f.N)
        u2 == mod_pow(f.g, f.r2, f.N)
        q  == div_floor(u1 * u2, f.N)
    IN  MkSolvedVDF(u, f.y, f.pi, q, f.nonce)

EvalReturn ==
    /\ pc = "divide"
    /\ ~(frame.i < frame.t)
    /\ solved_vdf' = EvalResult(unsolved_vdf, frame)
    /\ pc' = "solved"
    /\ UNCHANGED <<trusted_N, caller, unsolved_vdf, frame, compute_result, issued,
                   proof, flip_at, parameter, self_vdf, challenge, verify_result,
                   wire, decoded>>

\* compute without the self-verify
compute_tail_unverified(solved, unsolved) ==
    [result |-> "Ok",
     proof  |-> [y     |-> fill_field(BigInt_to_bytes(solved.y)),
                 pi    |-> fill_field(BigInt_to_bytes(solved.pi)),
                 q     |-> fill_field(BigInt_to_bytes(solved.q)),
                 nonce |-> solved.nonce]]

\* ------------------------------------- SerializedVDFProof::compute, the tail
\* lines 227-253: self-verify with `?`, then the three fields and the nonce
compute_tail(solved, unsolved) ==
    LET res     == verify(solved, unsolved)
        y_bytes  == BigInt_to_bytes(solved.y)
        pi_bytes == BigInt_to_bytes(solved.pi)
        q_bytes  == BigInt_to_bytes(solved.q)
    IN  IF res # "Ok" THEN [result |-> res, proof |-> NoProof]
        ELSE IF \/ Len(y_bytes) > GROUP_SIZE
                \/ Len(pi_bytes) > GROUP_SIZE
                \/ Len(q_bytes) > GROUP_SIZE
             THEN [result |-> "panic: slice index", proof |-> Panicked]
             ELSE [result |-> "Ok",
                   proof  |-> [y     |-> fill_field(y_bytes),
                               pi    |-> fill_field(pi_bytes),
                               q     |-> fill_field(q_bytes),
                               nonce |-> solved.nonce]]

ComputeReturn ==
    /\ pc = "solved"
    /\ caller = "compute"
    /\ compute_result' = compute_tail(solved_vdf, unsolved_vdf).result
    /\ issued' = compute_tail(solved_vdf, unsolved_vdf).proof
    /\ proof' = compute_tail(solved_vdf, unsolved_vdf).proof
    /\ pc' = "computed"
    /\ UNCHANGED <<trusted_N, caller, unsolved_vdf, frame, solved_vdf, flip_at,
                   parameter, self_vdf, challenge, verify_result, wire, decoded>>

\* ------------------------------------------------------------ verification
\* solved_vdf.verify(&unsolved) on eval's own output, as in test_vdf_valid_proof,
\* against the challenger's instance or one that differs from it
Verify(unsolved) ==
    /\ pc = "solved"
    /\ caller = "eval"
    /\ self_vdf' = solved_vdf
    /\ challenge' = unsolved
    /\ verify_result' = verify(solved_vdf, unsolved)
    /\ pc' = "verified"
    /\ UNCHANGED <<trusted_N, caller, unsolved_vdf, frame, solved_vdf, compute_result,
                   issued, proof, flip_at, parameter, wire, decoded>>

\* verify called on a SolvedVDF received from a prover: its fields are whatever
\* the prover chose
VerifyReceived ==
    /\ pc = "idle"
    /\ \E x \in Seeds, t \in Works :
          \E y \in ReceivedValues(trusted_N), pi \in ReceivedValues(trusted_N) :
             \E unsolved \in Challenges([x |-> x, setup |-> public_setup(t)]) :
                LET solved == MkSolvedVDF([x |-> x, setup |-> public_setup(t)], y, pi, 0, 0)
                IN  /\ self_vdf' = solved
                    /\ challenge' = unsolved
                    /\ verify_result' = verify(solved, unsolved)
    /\ caller' = "received"
    /\ pc' = "verified"
    /\ UNCHANGED <<trusted_N, unsolved_vdf, frame, solved_vdf, compute_result,
                   issued, proof, flip_at, parameter, wire, decoded>>

\* one byte of the serialized proof has bit 0 flipped between prover and verifier
FlipByte(bytes, at) == [bytes EXCEPT ![at + 1] = FlipBit0(bytes[at + 1])]

Flip(at) ==
    /\ pc = "computed"
    /\ compute_result = "Ok"
    /\ flip_at = 0 - 1
    /\ flip_at' = at
    /\ proof' = from_bytes(FlipByte(to_bytes(issued), at))
    /\ UNCHANGED <<trusted_N, pc, caller, unsolved_vdf, frame, solved_vdf,
                   compute_result, issued, parameter, self_vdf, challenge,
                   verify_result, wire, decoded>>

\* proof.verify_with_parameter(&parameter)
VerifyWithParameter(param) ==
    /\ pc = "computed"
    /\ compute_result = "Ok"
    /\ parameter' = param
    /\ self_vdf' = from_parameter_and_proof(param, proof)
    /\ challenge' = from_parameter_and_proof(param, proof).vdf_instance
    /\ verify_result' = verify_with_parameter(proof, param)
    /\ pc' = "verified"
    /\ UNCHANGED <<trusted_N, caller, unsolved_vdf, frame, solved_vdf, compute_result,
                   issued, proof, flip_at, wire, decoded>>

\* ------------------------------------------------------------------ codec
\* SerializedVDFProof::from_bytes(&bytes)
FromBytes ==
    /\ pc = "idle"
    /\ caller' = "from_bytes"
    /\ \E n \in WireLengths : \E bytes \in [1..n -> WireBytes] :
          /\ wire' = bytes
          /\ decoded' = from_bytes(bytes)
    /\ pc' = "decoded"
    /\ UNCHANGED <<trusted_N, unsolved_vdf, frame, solved_vdf, compute_result, issued,
                   proof, flip_at, parameter, self_vdf, challenge, verify_result>>

\* p.to_bytes()
ToBytes ==
    /\ pc = "idle"
    /\ caller' = "to_bytes"
    /\ \E y \in FieldBytes, pi \in FieldBytes, q \in FieldBytes, nonce \in NonceSamples :
          /\ decoded' = [y |-> y, pi |-> pi, q |-> q, nonce |-> nonce]
          /\ wire' = to_bytes([y |-> y, pi |-> pi, q |-> q, nonce |-> nonce])
    /\ pc' = "encoded"
    /\ UNCHANGED <<trusted_N, unsolved_vdf, frame, solved_vdf, compute_result, issued,
                   proof, flip_at, parameter, self_vdf, challenge, verify_result>>

\* ------------------------------------------------------------------- Next
Next ==
    \/ \E x \in Seeds, t \in Works : Eval(x, t)
    \/ \E t \in Works, k \in Seeds :
          \E x_bytes \in {SeedBytes(k), SubSeq(SeedBytes(k), 2, SEED_LENGTH)} :
             Compute(t, x_bytes)
    \/ Square
    \/ HashToPrime
    \/ Divide
    \/ EvalReturn
    \/ ComputeReturn
    \/ \E u \in Challenges(unsolved_vdf) : Verify(u)
    \/ VerifyReceived
    \/ \E at \in 0..(SIZE - 1) : Flip(at)
    \/ \E k \in Seeds, t \in Works : VerifyWithParameter([x |-> SeedBytes(k), t |-> t])
    \/ FromBytes
    \/ ToBytes

Spec == Init /\ [][Next]_vars

\* --------------------------------------------------------- faulty backend
\* compute's self-verify guards against an arithmetic backend that hands back a
\* wrong y or pi; here eval's result is replaced by such a value before compute
\* looks at it
BackendFault(field, v) ==
    /\ pc = "solved"
    /\ caller = "compute"
    /\ solved_vdf' = IF field = "y" THEN [solved_vdf EXCEPT !.y = v]
                                    ELSE [solved_vdf EXCEPT !.pi = v]
    /\ solved_vdf' # solved_vdf
    /\ pc' = "faulted"
    /\ UNCHANGED <<trusted_N, caller, unsolved_vdf, frame, compute_result, issued,
                   proof, flip_at, parameter, self_vdf, challenge, verify_result,
                   wire, decoded>>

ComputeReturnFaulted ==
    /\ pc = "faulted"
    /\ compute_result' = compute_tail(solved_vdf, unsolved_vdf).result
    /\ issued' = compute_tail(solved_vdf, unsolved_vdf).proof
    /\ proof' = compute_tail(solved_vdf, unsolved_vdf).proof
    /\ pc' = "computed"
    /\ UNCHANGED <<trusted_N, caller, unsolved_vdf, frame, solved_vdf, flip_at,
                   parameter, self_vdf, challenge, verify_result, wire, decoded>>

NextFault ==
    \/ Next
    \/ \E field \in {"y", "pi"}, v \in 0..3 : BackendFault(field, v)
    \/ ComputeReturnFaulted

SpecFault == Init /\ [][NextFault]_vars

\* ------------------------------------------------ arithmetic of the claims
\* 2^n, and a^e mod m as the product of e factors a, split as a^u * a^(e-u)
RECURSIVE Pow2(_)
Pow2(n) == IF n = 0 THEN 1 ELSE 2 * Pow2(n - 1)

RECURSIVE PowMod(_, _, _)
PowMod(a, e, m) ==
    IF e = 0 THEN 1 % m
    ELSE IF e = 1 THEN a % m
    ELSE (PowMod(a, e \div 2, m) * PowMod(a, e - (e \div 2), m)) % m

\* the Wesolowski relation pi^l * g^(2^t mod l) == y (mod N)
Wesolowski(N, g, t, l, y, pi) ==
    (PowMod(pi, l, N) * PowMod(g, Pow2(t) % l, N)) % N = y

\* the relation for a SolvedVDF, with g and l derived as the verifier derives them
Relation(solved) ==
    LET N == solved.vdf_instance.setup.N
        g == h_g(N, solved.vdf_instance.x)
    IN  Wesolowski(N, g, solved.vdf_instance.setup.t, hash_to_prime(g, solved.y)[1],
                   solved.y, solved.pi)

InGroup(v, N) == 0 <= v /\ v < N

\* compute ran on a well-formed seed and returned
ComputeReturned ==
    pc \in {"computed", "verified"} /\ caller = "compute"
        /\ compute_result # "panic: invalid x length"

\* the parameter handed to verify_with_parameter is the one compute was given
OwnParameter == parameter # NoParameter /\ from_parameter(parameter) = unsolved_vdf

\* ------------------------------------------------------------------ claims

\* C1: what eval returns passes verify against the same UnsolvedVDF: its y and
\* pi lie in [0, N) and satisfy pi^l * g^(2^t mod l) mod N = y for the l that
\* hash_to_prime(g, y) returns; compute on a 32-byte seed returns Ok, and the
\* proof it returns passes verify_with_parameter with the same x and t.
C1_EvalOutputVerifies ==
    /\ pc = "solved" =>
          /\ InGroup(solved_vdf.y, frame.N) /\ InGroup(solved_vdf.pi, frame.N)
          /\ Wesolowski(frame.N, frame.g, frame.t, frame.l, solved_vdf.y, solved_vdf.pi)
    /\ (pc = "verified" /\ caller = "eval" /\ challenge = unsolved_vdf) =>
          verify_result = "Ok"
    /\ ComputeReturned => compute_result = "Ok"
    /\ (ComputeReturned /\ pc = "verified" /\ flip_at = 0 - 1 /\ OwnParameter) =>
          verify_result = "Ok"

C1_Witness ==
    /\ ComputeReturned /\ pc = "verified" /\ flip_at = 0 - 1 /\ OwnParameter
    /\ unsolved_vdf.setup.t >= 3
    /\ solved_vdf.y > 1 /\ solved_vdf.pi > 1
    /\ verify_result = "Ok"

\* C2: after i iterations of the squaring loop y = g^(2^i) mod N with
\* g = H_G(N, x); the loop stops at i = t, so eval returns y = g^(2^t) mod N.
C2_SequentialSquaring ==
    /\ pc = "square" =>
          /\ frame.i <= frame.t
          /\ frame.g = h_g(unsolved_vdf.setup.N, unsolved_vdf.x)
          /\ frame.y = PowMod(frame.g, Pow2(frame.i), frame.N)
    /\ pc = "divide" => frame.y = PowMod(frame.g, Pow2(frame.t), frame.N)
    /\ pc = "solved" =>
          solved_vdf.y = PowMod(h_g(unsolved_vdf.setup.N, unsolved_vdf.x),
                                Pow2(unsolved_vdf.setup.t), unsolved_vdf.setup.N)

C2_Witness ==
    /\ pc = "solved"
    /\ unsolved_vdf.setup.t >= 3
    /\ solved_vdf.y > 1
    /\ solved_vdf.y # frame.g

\* C8: with t = 0 neither loop runs an iteration; eval returns y = H_G(N, x),
\* pi = 1, q = 0 with r = 1 and r2 = 0, and verify accepts that solution.
C8_ZeroWork ==
    unsolved_vdf.setup.t = 0 =>
       /\ frame.i = 0 /\ frame.b = 0
       /\ pc = "solved" =>
             /\ solved_vdf.y = h_g(unsolved_vdf.setup.N, unsolved_vdf.x)
             /\ solved_vdf.pi = 1
             /\ solved_vdf.q = 0
             /\ frame.r = 1 /\ frame.r2 = 0
       /\ (pc = "verified" /\ caller = "eval" /\ challenge = unsolved_vdf) =>
             /\ verify_result = "Ok"
             /\ mod_pow(2, 0, frame.l) = 1
             /\ self_vdf.y = frame.g

C8_Witness ==
    /\ pc = "verified" /\ caller = "eval" /\ challenge = unsolved_vdf
    /\ unsolved_vdf.setup.t = 0
    /\ self_vdf.pi = 1 /\ self_vdf.q = 0
    /\ verify_result = "Ok"

\* C9: in the long-division loop, after i iterations, l >= 2, 0 <= r < l,
\* r = 2^i mod l, pi = g^floor(2^i / l) mod N, and the quotient bit b of the
\* last iteration is 0 or 1 because r2 = 2r < 2l; the final r is the
\* verifier's mod_pow(2, t, l).
C9_LongDivision ==
    /\ pc = "divide" =>
          /\ frame.l >= 2
          /\ 0 <= frame.r /\ frame.r < frame.l
          /\ frame.r = Pow2(frame.i) % frame.l
          /\ frame.pi = PowMod(frame.g, Pow2(frame.i) \div frame.l, frame.N)
          /\ frame.i > 0 =>
                /\ frame.b \in {0, 1}
                /\ frame.r2 = 2 * (Pow2(frame.i - 1) % frame.l)
                /\ frame.r2 < 2 * frame.l
    /\ pc = "solved" => frame.r = mod_pow(2, unsolved_vdf.setup.t, frame.l)

C9_Witness ==
    /\ pc = "divide"
    /\ frame.i = frame.t /\ frame.t >= 3
    /\ frame.b = 1
    /\ frame.l > 2

\* C10: the y, pi and q eval returns lie in [0, N), q being
\* floor((pi^l mod N) * (g^r2 mod N) / N); so in compute each minimal encoding
\* fits a field, no field index underflows, and each field of the returned
\* proof decodes to eval's y, pi and q.
C10_FieldsInRange ==
    /\ pc = "solved" =>
          /\ InGroup(solved_vdf.y, frame.N)
          /\ InGroup(solved_vdf.pi, frame.N)
          /\ InGroup(solved_vdf.q, frame.N)
          /\ solved_vdf.q = (PowMod(frame.pi, frame.l, frame.N)
                                * PowMod(frame.g, frame.r2, frame.N)) \div frame.N
    /\ ComputeReturned =>
          /\ compute_result # "panic: slice index"
          /\ Len(BigInt_to_bytes(solved_vdf.y)) <= GROUP_SIZE
          /\ Len(BigInt_to_bytes(solved_vdf.pi)) <= GROUP_SIZE
          /\ Len(BigInt_to_bytes(solved_vdf.q)) <= GROUP_SIZE
          /\ Len(issued.y) = GROUP_SIZE /\ Len(issued.pi) = GROUP_SIZE
          /\ Len(issued.q) = GROUP_SIZE
          /\ BigInt_from_bytes(issued.y) = solved_vdf.y
          /\ BigInt_from_bytes(issued.pi) = solved_vdf.pi
          /\ BigInt_from_bytes(issued.q) = solved_vdf.q

C10_Witness ==
    /\ ComputeReturned /\ compute_result = "Ok"
    /\ solved_vdf.y >= 256
    /\ solved_vdf.pi > 1 /\ solved_vdf.pi < 256
    /\ solved_vdf.q > 0
    /\ issued.pi[1] = 0

\* a proof compute returned had one byte flipped and was then verified with
\* compute's own parameter
FlippedAndVerified ==
    ComputeReturned /\ pc = "verified" /\ flip_at >= 0 /\ OwnParameter

\* C3 as stated: flipping bit 0 of any byte of a verifying proof, in the y, pi,
\* q or nonce field, makes verify_with_parameter return an error.
C3_EveryFlipRejected ==
    FlippedAndVerified => verify_result # "Ok"

\* C3 as amended: verify reads neither q nor nonce, so a flip in those fields
\* (offsets 2*GROUP_SIZE and up) leaves the proof accepted; a flip in the y or
\* pi field changes the decoded y or pi, and the flipped proof is accepted
\* exactly when its own y and pi lie in [0, N) and satisfy the Wesolowski
\* relation for the prime derived from the flipped y.
C3_FlipInCheckedFields ==
    FlippedAndVerified =>
       /\ flip_at >= 2 * GROUP_SIZE =>
             /\ verify_result = "Ok"
             /\ self_vdf.y = solved_vdf.y /\ self_vdf.pi = solved_vdf.pi
             /\ (self_vdf.q # solved_vdf.q \/ self_vdf.nonce # solved_vdf.nonce)
       /\ flip_at < 2 * GROUP_SIZE =>
             /\ (self_vdf.y # solved_vdf.y \/ self_vdf.pi # solved_vdf.pi)
             /\ verify_result \in {"Ok", "VDFVerifyError"}
             /\ verify_result = "Ok" <=>
                   /\ InGroup(self_vdf.y, trusted_N)
                   /\ InGroup(self_vdf.pi, trusted_N)
                   /\ Relation(self_vdf)

C3_Witness ==
    /\ FlippedAndVerified
    /\ flip_at >= 3 * GROUP_SIZE
    /\ self_vdf.nonce # hash_to_prime(frame.g, self_vdf.y)[2]
    /\ verify_result = "Ok"

\* C4: verify returns MisMatchedVDF whenever the instance embedded in the
\* solution differs from the UnsolvedVDF passed in (x, t or N), whatever y and
\* pi are: out of range or failing the relation, the answer is MisMatchedVDF.
C4_MismatchFirst ==
    (pc = "verified" /\ self_vdf.vdf_instance # challenge) =>
        verify_result = "MisMatchedVDF"

C4_Witness ==
    /\ pc = "verified" /\ caller = "received"
    /\ self_vdf.vdf_instance.setup.N # challenge.setup.N
    /\ self_vdf.y >= trusted_N
    /\ verify_result = "MisMatchedVDF"

\* C5 as stated: for a solution whose instance matches the challenge, verify
\* returns VDFVerifyError whenever y >= N or pi >= N, and returns Ok only if
\* 0 <= y < N, 0 <= pi < N and pi^l * g^(2^t mod l) mod N = y.
C5_RangeAndRelation ==
    (pc = "verified" /\ self_vdf.vdf_instance = challenge) =>
       /\ (self_vdf.y >= challenge.setup.N \/ self_vdf.pi >= challenge.setup.N) =>
             verify_result = "VDFVerifyError"
       /\ verify_result = "Ok" =>
             /\ InGroup(self_vdf.y, challenge.setup.N)
             /\ InGroup(self_vdf.pi, challenge.setup.N)
             /\ Relation(self_vdf)

\* the part of C5 that holds of verify: an oversized y or pi is rejected, and Ok
\* is returned only for y in [0, N) and a pi below N that satisfy the relation
C5_UpperRangeAndRelation ==
    (pc = "verified" /\ self_vdf.vdf_instance = challenge) =>
       /\ (self_vdf.y >= challenge.setup.N \/ self_vdf.pi >= challenge.setup.N) =>
             verify_result = "VDFVerifyError"
       /\ verify_result = "Ok" =>
             /\ InGroup(self_vdf.y, challenge.setup.N)
             /\ self_vdf.pi < challenge.setup.N
             /\ Relation(self_vdf)

\* C6: to_bytes(P) has exactly SIZE = 3 * GROUP_SIZE + NONCE_SIZE bytes laid out
\* as y, pi, q and the big-endian nonce, and from_bytes(to_bytes(P)) = P;
\* from_bytes yields a proof only for slices of exactly SIZE bytes (any other
\* length panics), and to_bytes(from_bytes(b)) = b for those.
C6_CodecRoundTrip ==
    /\ pc = "encoded" =>
          /\ Len(wire) = SIZE
          /\ SubSeq(wire, 1, GROUP_SIZE) = decoded.y
          /\ SubSeq(wire, GROUP_SIZE + 1, 2 * GROUP_SIZE) = decoded.pi
          /\ SubSeq(wire, 2 * GROUP_SIZE + 1, 3 * GROUP_SIZE) = decoded.q
          /\ decoded.nonce = ((wire[SIZE - 3] * 256 + wire[SIZE - 2]) * 256
                                 + wire[SIZE - 1]) * 256 + wire[SIZE]
          /\ from_bytes(wire) = decoded
    /\ pc = "decoded" =>
          /\ Len(wire) # SIZE => decoded = Panicked
          /\ Len(wire) = SIZE =>
                /\ decoded # Panicked
                /\ Len(decoded.y) = GROUP_SIZE /\ Len(decoded.pi) = GROUP_SIZE
                /\ Len(decoded.q) = GROUP_SIZE
                /\ to_bytes(decoded) = wire

C6_Witness ==
    /\ pc = "decoded"
    /\ Len(wire) = SIZE
    /\ decoded.nonce > 256 * 256
    /\ decoded.y # decoded.pi /\ decoded.pi # decoded.q
    /\ to_bytes(decoded) = wire

\* C7 as stated: if compute's self-verify fails, compute returns no proof and
\* the error it reports is InternalError.
C7_InternalError ==
    (ComputeReturned /\ compute_result # "Ok") =>
        (issued = NoProof /\ compute_result = "InternalError")

\* C7 as amended: compute runs verify on eval's output before it encodes
\* anything: it returns a proof exactly when that output has y and pi in [0, N)
\* satisfying the Wesolowski relation; otherwise it returns no proof and the
\* error is the verifier's own VDFVerifyError, passed on unchanged by `?`.
C7_SelfVerifyPropagates ==
    (ComputeReturned /\ pc = "computed") =>
       /\ compute_result = "Ok" <=>
             /\ InGroup(solved_vdf.y, trusted_N)
             /\ InGroup(solved_vdf.pi, trusted_N)
             /\ Relation(solved_vdf)
       /\ compute_result = "Ok" => BigInt_from_bytes(issued.y) = solved_vdf.y
       /\ compute_result # "Ok" =>
             /\ issued = NoProof
             /\ compute_result = "VDFVerifyError"

C7_Witness ==
    /\ ComputeReturned /\ pc = "computed"
    /\ compute_result = "VDFVerifyError"
    /\ issued = NoProof
    /\ InGroup(solved_vdf.y, trusted_N) /\ InGroup(solved_vdf.pi, trusted_N)

====
